---- MODULE Spec2Model ----
(***************************************************************************)
(* Shopify -> BigQuery pipeline: the orchestration of pipeline.py, the     *)
(* progress lookup of load_to_bigquery.py / utils.py, the staging of       *)
(* extract_shopify_data.py and the load loop of load_to_bigquery.py.       *)
(*                                                                         *)
(* One process runs at a time (a cron-style batch job); the warehouse      *)
(* tables and the staging directory persist between processes.             *)
(*                                                                         *)
(* Specifications: Spec (processes one after another), SpecProgress (one   *)
(* extraction phase against every warehouse), SpecLoad (the load phase     *)
(* against every staging directory), SpecFetch (one fetch_paginated_data   *)
(* call) and SpecSanitize (clean_column_names on every DataFrame header).  *)
(***************************************************************************)
EXTENDS Integers, Sequences, FiniteSets, TLC

\* ------------------------------------------------------------------ bounds
\* Times are whole seconds 0..MaxT; MaxT stands for datetime.max, the last
\* second a datetime can hold.
MaxT == 1
\* Number of processes started one after another in one behaviour.
MaxRuns == 3

\* --------------------------------------------------------------- constants
\* Config.TABLE_MAPPING, in insertion order (the order every loop follows).
ResOrder == <<"orders", "customers", "products">>
Resources == {ResOrder[i] : i \in 1..Len(ResOrder)}
TABLE_MAPPING == [r \in Resources |-> CASE r = "orders" -> "shopify_orders"
                                        [] r = "customers" -> "shopify_customers"
                                        [] r = "products" -> "shopify_products"]
\* "limit": 250, the only query parameter fetch_paginated_data is given.
PageLimit == 250

Times == 0..MaxT

\* ------------------------------------------------------------------ values
\* What MAX(updated_at) can come back as: NULL, a datetime object, or a string.
\* A string is the empty string, ISO text that datetime.fromisoformat parses
\* (Iso(t) is the isoformat() text of second t), or text it rejects (Raw(t)
\* spells second t in some other format, e.g. "2024-01-01 00:00:00 UTC").
Null == <<"null", 0>>
EmptyStr == <<"emptystr", 0>>
Dt(t) == <<"datetime", t>>
Iso(t) == <<"iso", t>>
Raw(t) == <<"raw", t>>
\* Python's None as a return value / an absent dict key.
None == <<"none", 0>>

NonNullValues == {EmptyStr} \cup {Dt(t) : t \in Times} \cup {Iso(t) : t \in Times}
                    \cup {Raw(t) : t \in Times}
Values == {Null} \cup NonNullValues

IsStr(v) == v[1] \in {"emptystr", "iso", "raw"}
\* Python truthiness of a query value or of a returned marker.
Truthy(v) == v[1] \notin {"null", "none", "emptystr"}
\* The second a value denotes.
TimeOf(v) == v[2]

\* A batch (DataFrame / CSV content): the process that extracted it, and the
\* largest updated_at among its rows.
NoFile == [id |-> 0, maxv |-> <<"nofile", 0>>]
EmptyDF == [id |-> 0, maxv |-> Null]
\* updated_at travels as ISO text through the CSV file; a batch's newest row is
\* of the first or of the last second.
BatchValues == {Iso(0), Iso(MaxT)}
Batch(i, v) == [id |-> i, maxv |-> v]

VARIABLES
    mode,             \* which entry point / flags the running process was started with
    pc,               \* position of the running process
    idx,              \* position of the current loop over TABLE_MAPPING / datasets
    loader,           \* pipeline.loader: "none" or "ready"
    last_timestamps,  \* the progress map (None = key absent)
    datasets,         \* extract_all's result, per resource
    saved_files,      \* resources save_to_csv wrote a file for
    ext_ok,           \* first component of run_extraction's return value
    results,          \* load_all_datasets' results dict (Unset = key absent)
    exitCode,         \* process exit status, -1 while running
    disk,             \* DATA_DIR/<name>.csv per resource, NoFile when absent
    tables,           \* the warehouse tables
    run,              \* number of processes started so far
    fetched,          \* per resource: the query parameters of the fetch issued in this process
    attempts,         \* per resource: load_from_csv calls in this process
    envFailed,        \* some call to the outside failed in this process
    lookupKind,       \* per resource: how its progress lookup ended in this process
    extractCalled,    \* run_extraction reached its extract_all call in this process
    retained,         \* per resource: the artifact the latest failed load left, and how many processes ago
    interruptedAt,    \* position at which a KeyboardInterrupt arrived in this process, "none" without one

    \* one call of fetch_paginated_data
    fpc,              \* "off", "loop" (inside while url) or "returned"
    url,              \* page the next request goes to, 0 for None
    params,           \* the params argument of the next request, None after the first page
    all_data,         \* records collected so far (a record is the number of its page)
    page_num,         \* the page counter
    requests,         \* session.get calls made so far
    broke,            \* the loop was left through a break
    srvPages,         \* number of pages the source holds for this listing
    srvPrevFirst,     \* the source lists rel="previous" before rel="next" in a Link header
    srvRecords,       \* per page: whether the page holds a record (else its list is empty)
    sawRateLimit,     \* the source answered some request with 429
    sawFailure,       \* the source answered some request with a failure other than 429

    \* one call of clean_column_names, and a second one on its result
    spc,              \* "off", "input", "cleaned" or "recleaned"
    columns,          \* df.columns before the call
    cleaned,          \* the first call's outcome
    recleaned         \* the second call's outcome

fetchVars == <<fpc, url, params, all_data, page_num, requests, broke, srvPages,
               srvPrevFirst, srvRecords, sawRateLimit, sawFailure>>
sanVars == <<spc, columns, cleaned, recleaned>>
runVars == <<mode, pc, idx, loader, last_timestamps, datasets, saved_files, ext_ok,
             results, exitCode, disk, tables, run, fetched, attempts, envFailed,
             lookupKind, extractCalled, retained, interruptedAt>>
vars == <<runVars, fetchVars, sanVars>>

\* A results entry is <<success>>; Unset is a key the dict does not hold.
Unset == <<>>
NotIssued == [issued |-> FALSE, limit |-> 0, updated_at_min |-> None]

\* A table that does not exist / exists with the given maximum.
NoTable == [exists |-> FALSE, maxv |-> Null, rows |-> <<>>]
TableWith(v) == [exists |-> TRUE, maxv |-> v, rows |-> IF v = Null THEN <<>> ELSE <<0>>]

\* ------------------------------------------------ progress store reader
\* What the warehouse answers to get_table + SELECT MAX(updated_at): the table
\* is missing (NotFound), some other error is raised, or a row comes back.
Outcome(k, v) == [kind |-> k, value |-> v]
QueryOutcomes(t) ==
    {Outcome("error", Null)} \cup
    (IF t.exists THEN {Outcome("row", t.maxv)} ELSE {Outcome("notfound", Null)})

\* datetime.fromisoformat accepts the text.
Parses(v) == v[1] = "iso"
\* dt + timedelta(seconds=1) raises OverflowError past datetime.max.
Overflows(t) == t + 1 > MaxT
NoOffset(t) == t
AddSecond(t) == t + 1

\* if row and row.last_update
AnyValue(v) == TRUE
HasValue(v) == Truthy(v)

\* A lookup that answers an error with the newest marker it knows of.
GetLastUpdatedTimestampOnErrorLatest(out) ==
    IF out.kind = "error" THEN Iso(MaxT) ELSE None

\* What the except clauses return: NotFound and any other Exception give None.
OnLookupException(out) == None

\* BigQueryLoader.get_last_updated_timestamp, as a function of the warehouse's answer.
GetLastUpdatedTimestamp(out) ==
    IF out.kind \in {"notfound", "error"} THEN OnLookupException(out)
    ELSE LET v == out.value IN
         IF ~HasValue(v) THEN None
         ELSE IF IsStr(v) /\ ~Parses(v) THEN v
         ELSE IF Overflows(TimeOf(v)) THEN None
         ELSE Iso(AddSecond(TimeOf(v)))

\* utils.get_incremental_timestamps, one iteration: the key is set only for a truthy marker.
KeepsMarker(ts) == Truthy(ts)
WithMarker(map, r, ts) == IF KeepsMarker(ts) THEN [map EXCEPT ![r] = ts] ELSE map

\* --------------------------------------------------------------- extractor
\* def extract_all(self): it takes no argument besides self, while
\* run_extraction calls extract_all(last_updated_timestamps=last_timestamps).
ExtractAllParams == {}
RunExtractionKwargs == {"last_updated_timestamps"}
\* A callee that takes any keyword argument (def f(self, **kwargs)).
BindsAnyKeyword(kwargs, names) == TRUE
\* Python binds a call's keyword arguments only to parameters of that name;
\* anything else raises TypeError.
CallBinds(kwargs, names) == kwargs \subseteq names

\* The query parameters of the first request of extract_orders /
\* extract_customers / extract_products: {"limit": 250} in all three.
FetchParams(r) == [issued |-> TRUE, limit |-> PageLimit, updated_at_min |-> None]

\* save_to_csv, one iteration: an empty DataFrame is skipped.
Staged(df) == df # EmptyDF

\* ------------------------------------------------------------------ loader
\* What the outside does to one load_from_csv call: nothing goes wrong, read_csv
\* raises, the load job raises before committing, the job commits and the
\* following get_table raises, or the job commits and unlink raises.
LoadEnvs == {"ok", "read_error", "job_error", "post_error", "unlink_error"}

\* The table after a WRITE_TRUNCATE load job of batch df committed.
CommitTruncate(t, df) == [exists |-> TRUE, maxv |-> df.maxv, rows |-> <<df.id>>]
\* The table after an append load job of batch df committed.
Commit(t, df) ==
    [exists |-> TRUE,
     maxv |-> IF t.maxv = Null \/ TimeOf(df.maxv) > TimeOf(t.maxv) THEN df.maxv ELSE t.maxv,
     rows |-> Append(t.rows, df.id)]

\* BigQueryLoader.load_dataframe: its return value and the table it leaves.
LoadDataframe(df, t, env) ==
    IF df = EmptyDF THEN [ok |-> FALSE, table |-> t]
    ELSE IF env = "job_error" THEN [ok |-> FALSE, table |-> t]
    ELSE IF env = "post_error" THEN [ok |-> FALSE, table |-> Commit(t, df)]
    ELSE [ok |-> TRUE, table |-> Commit(t, df)]

\* load_from_csv unlinks the file when load_dataframe returned True.
UnlinkAlways(success) == TRUE
Unlinks(success) == success

\* BigQueryLoader.load_from_csv on an existing file: return value, file and table afterwards.
LoadFromCsv(file, t, env) ==
    IF env = "read_error" THEN [success |-> FALSE, file |-> file, table |-> t]
    ELSE LET d == LoadDataframe(file, t, env) IN
         IF Unlinks(d.ok)
         THEN IF env = "unlink_error"
              THEN [success |-> FALSE, file |-> file, table |-> d.table]
              ELSE [success |-> d.ok, file |-> NoFile, table |-> d.table]
         ELSE [success |-> d.ok, file |-> file, table |-> d.table]

\* A run_loading that is content with one successful load.
RunLoadingResultAny(res) == \E r \in Resources : res[r] = <<TRUE>>

\* run_loading's return value from load_all_datasets' results.
AnyResult(res) == \E r \in Resources : res[r] # Unset
RunLoadingResult(res) ==
    IF ~AnyResult(res) THEN TRUE
    ELSE \A r \in Resources : res[r] # Unset => res[r][1]

\* sys.exit(0 if success else 1)
ExitStatus(success) == IF success THEN 0 ELSE 1

\* ------------------------------------------------------------- the process
NoMarkers == [r \in Resources |-> None]
NoData == [r \in Resources |-> EmptyDF]
NoResults == [r \in Resources |-> Unset]
\* A loop over TABLE_MAPPING that stops one item early.
LastButOne == Len(ResOrder) - 1
Last == Len(ResOrder)
\* exitCode while the process has not exited.
Running == 0 - 1

\* What a failed load_from_csv leaves behind: the file, and whether the load
\* was made by this process (0), by the one before (1) or by an older one (2).
Left(file, k) == [file |-> file, age |-> k]
NothingLeft == [r \in Resources |-> Left(NoFile, 0)]
\* The same at the start of the next process: forgotten once the file on disk
\* is no longer that one.
Aged(left, file) ==
    IF left.file = NoFile \/ file # left.file THEN Left(NoFile, 0)
    ELSE Left(left.file, IF left.age = 0 THEN 1 ELSE 2)

\* What every new process starts from (ShopifyBigQueryPipeline.__init__ and the
\* locals of the functions); the staging directory and the warehouse are kept.
Fresh(m, p, code) ==
    /\ mode' = m
    /\ pc' = p
    /\ exitCode' = code
    /\ idx' = 1
    /\ loader' = "none"
    /\ last_timestamps' = NoMarkers
    /\ datasets' = NoData
    /\ saved_files' = {}
    /\ ext_ok' = FALSE
    /\ results' = NoResults
    /\ run' = run + 1
    /\ fetched' = [r \in Resources |-> NotIssued]
    /\ attempts' = [r \in Resources |-> 0]
    /\ envFailed' = FALSE
    /\ lookupKind' = [r \in Resources |-> "none"]
    /\ extractCalled' = FALSE
    /\ retained' = [r \in Resources |-> Aged(retained[r], disk[r])]
    /\ interruptedAt' = "none"
    /\ UNCHANGED <<disk, tables, fetchVars, sanVars>>

Stopped == pc \in {"idle", "exited"}


\* No fetch_paginated_data call / no clean_column_names call is being followed.
FetchOff ==
    /\ fpc = "off" /\ url = 0 /\ params = None /\ all_data = <<>> /\ page_num = 1
    /\ requests = 0 /\ broke = FALSE /\ srvPages = 1 /\ srvPrevFirst = FALSE
    /\ srvRecords = <<>>
    /\ sawRateLimit = FALSE /\ sawFailure = FALSE
SanOff == spc = "off" /\ columns = <<>> /\ cleaned = <<>> /\ recleaned = <<>>

\* pipeline.main when Config.validate() raises ValueError, or when --extract
\* and --load are both given: sys.exit(1) before any phase.
MainRejected ==
    /\ Stopped /\ run < MaxRuns
    /\ \E m \in {"bad_config", "both_flags"} : Fresh(m, "exited", 1)

\* pipeline.main with a valid configuration: no flag (run_full_pipeline) or
\* --extract; both enter run_extraction.
MainExtraction ==
    /\ Stopped /\ run < MaxRuns
    /\ \E m \in {"full", "extract"} : Fresh(m, "ext_init", Running)

\* pipeline.main with --load: run_loading(extracted_files=None).
MainLoad ==
    /\ Stopped /\ run < MaxRuns
    /\ Fresh("load", "load_start", Running)

\* extract_shopify_data.main with a valid configuration: extract_all() and save_to_csv.
ExtractorMain ==
    /\ Stopped /\ run < MaxRuns
    /\ Fresh("extractor", "fetch", Running)

\* run_extraction returning (False, []) from its except clause.
ExtractionRaised ==
    /\ ext_ok' = FALSE
    /\ saved_files' = {}
    /\ pc' = "ext_return"

\* run_extraction: self.loader = BigQueryLoader(). The constructor raises when
\* the client or the dataset cannot be set up; the exception is caught by
\* run_extraction's except clause.
ExtLoaderInit ==
    /\ pc = "ext_init"
    /\ \E ok \in BOOLEAN :
         IF ok
         THEN /\ loader' = "ready"
              /\ pc' = "lookup"
              /\ idx' = 1
              /\ UNCHANGED <<ext_ok, saved_files, envFailed>>
         ELSE /\ ExtractionRaised
              /\ envFailed' = TRUE
              /\ UNCHANGED <<loader, idx>>
    /\ UNCHANGED <<mode, last_timestamps, datasets, results, exitCode, disk, tables,
                   run, fetched, attempts, lookupKind, extractCalled>>
    /\ UNCHANGED <<retained, interruptedAt, fetchVars, sanVars>>

\* get_incremental_timestamps, one iteration of its loop over TABLE_MAPPING.
Lookup ==
    /\ pc = "lookup"
    /\ LET r == ResOrder[idx] IN
       \E out \in QueryOutcomes(tables[r]) :
         /\ last_timestamps' = WithMarker(last_timestamps, r, GetLastUpdatedTimestamp(out))
         /\ lookupKind' = [lookupKind EXCEPT ![r] = out.kind]
         /\ envFailed' = (envFailed \/ out.kind = "error")
    /\ IF idx = Last THEN pc' = "extract_call" /\ idx' = 1
                     ELSE pc' = "lookup" /\ idx' = idx + 1
    /\ UNCHANGED <<mode, loader, datasets, saved_files, ext_ok, results, exitCode, disk,
                   tables, run, fetched, attempts, extractCalled>>
    /\ UNCHANGED <<retained, interruptedAt, fetchVars, sanVars>>

\* run_extraction: self.extractor = ShopifyExtractor();
\* self.extractor.extract_all(last_updated_timestamps=last_timestamps).
ExtractCall ==
    /\ pc = "extract_call"
    /\ IF CallBinds(RunExtractionKwargs, ExtractAllParams)
       THEN pc' = "fetch" /\ idx' = 1 /\ UNCHANGED <<ext_ok, saved_files>>
       ELSE ExtractionRaised /\ UNCHANGED idx
    /\ extractCalled' = TRUE
    /\ UNCHANGED <<mode, loader, last_timestamps, datasets, results, exitCode, disk,
                   tables, run, fetched, attempts, envFailed, lookupKind>>
    /\ UNCHANGED <<retained, interruptedAt, fetchVars, sanVars>>

\* extract_all, one of its three fetches: the fetch returns an empty DataFrame
\* or the records the source holds. fetch_paginated_data catches every
\* exception of a request, so a failed fetch shows as fewer (or no) records.
Fetch ==
    /\ pc = "fetch"
    /\ LET r == ResOrder[idx] IN
         /\ fetched' = [fetched EXCEPT ![r] = FetchParams(r)]
         /\ \E df \in {EmptyDF} \cup {Batch(run, v) : v \in BatchValues} :
              datasets' = [datasets EXCEPT ![r] = df]
    /\ IF idx = Last THEN pc' = "save" /\ idx' = 1
                     ELSE pc' = "fetch" /\ idx' = idx + 1
    /\ UNCHANGED <<mode, loader, last_timestamps, saved_files, ext_ok, results, exitCode,
                   disk, tables, run, attempts, envFailed, lookupKind, extractCalled>>
    /\ UNCHANGED <<retained, interruptedAt, fetchVars, sanVars>>

\* save_to_csv, one iteration of its loop; after the last one the caller goes
\* on: run_extraction returns (True, saved_files), extract_shopify_data.main
\* exits 1 when nothing was saved.
Save ==
    /\ pc = "save"
    /\ LET r == ResOrder[idx]
           saved == IF Staged(datasets[r]) THEN saved_files \cup {r} ELSE saved_files
       IN /\ saved_files' = saved
          /\ disk' = IF Staged(datasets[r]) THEN [disk EXCEPT ![r] = datasets[r]] ELSE disk
          /\ IF idx < Last
             THEN pc' = "save" /\ idx' = idx + 1 /\ UNCHANGED <<ext_ok, exitCode>>
             ELSE IF mode = "extractor"
                  THEN /\ pc' = "exited"
                       /\ exitCode' = ExitStatus(saved # {})
                       /\ UNCHANGED <<idx, ext_ok>>
                  ELSE pc' = "ext_return" /\ ext_ok' = TRUE /\ UNCHANGED <<idx, exitCode>>
    /\ UNCHANGED <<mode, loader, last_timestamps, datasets, results, tables, run, fetched,
                   attempts, envFailed, lookupKind, extractCalled>>
    /\ UNCHANGED <<retained, interruptedAt, fetchVars, sanVars>>

\* The caller of run_extraction: main with --extract exits on its result;
\* run_full_pipeline returns False when it failed and otherwise calls
\* run_loading(extracted_files=saved_files).
ExtReturn ==
    /\ pc = "ext_return"
    /\ IF mode = "extract" \/ ~ext_ok
       THEN pc' = "exited" /\ exitCode' = ExitStatus(ext_ok)
       ELSE pc' = "load_start" /\ UNCHANGED exitCode
    /\ UNCHANGED <<mode, idx, loader, last_timestamps, datasets, saved_files, ext_ok,
                   results, disk, tables, run, fetched, attempts, envFailed, lookupKind, extractCalled>>
    /\ UNCHANGED <<retained, interruptedAt, fetchVars, sanVars>>

\* run_loading up to load_all_datasets: the skip when extracted_files is an
\* empty list (extracted_files is None under --load), then BigQueryLoader()
\* unless run_extraction already made one; its exception makes run_loading return False.
LoadStart ==
    /\ pc = "load_start"
    /\ IF mode = "full" /\ saved_files = {}
       THEN pc' = "exited" /\ exitCode' = ExitStatus(TRUE)
            /\ UNCHANGED <<loader, idx, envFailed>>
       ELSE \E ok \in BOOLEAN :
              IF ok \/ loader = "ready"
              THEN /\ loader' = "ready" /\ pc' = "load_loop" /\ idx' = 1
                   /\ UNCHANGED <<exitCode, envFailed>>
              ELSE /\ pc' = "exited" /\ exitCode' = ExitStatus(FALSE)
                   /\ envFailed' = TRUE
                   /\ UNCHANGED <<loader, idx>>
    /\ UNCHANGED <<mode, last_timestamps, datasets, saved_files, ext_ok, results, disk,
                   tables, run, fetched, attempts, lookupKind, extractCalled>>
    /\ UNCHANGED <<retained, interruptedAt, fetchVars, sanVars>>

\* load_all_datasets, one iteration of its loop over TABLE_MAPPING: skip when
\* the CSV file is missing, else results[table] = load_from_csv(...).
LoadStep ==
    /\ pc = "load_loop"
    /\ LET r == ResOrder[idx] IN
       IF disk[r] = NoFile
       THEN UNCHANGED <<results, disk, tables, attempts, envFailed, retained>>
       ELSE \E env \in LoadEnvs :
              LET out == LoadFromCsv(disk[r], tables[r], env) IN
              /\ results' = [results EXCEPT ![r] = <<out.success>>]
              /\ disk' = [disk EXCEPT ![r] = out.file]
              /\ tables' = [tables EXCEPT ![r] = out.table]
              /\ attempts' = [attempts EXCEPT ![r] = @ + 1]
              /\ envFailed' = (envFailed \/ env # "ok")
              /\ retained' = IF out.success THEN retained
                             ELSE [retained EXCEPT ![r] = Left(out.file, 0)]
    /\ IF idx = Last THEN pc' = "load_return" /\ idx' = 1
                     ELSE pc' = "load_loop" /\ idx' = idx + 1
    /\ UNCHANGED <<mode, loader, last_timestamps, datasets, saved_files, ext_ok, exitCode,
                   run, fetched, lookupKind, extractCalled>>
    /\ UNCHANGED <<interruptedAt, fetchVars, sanVars>>

\* run_loading after load_all_datasets, and its caller: run_full_pipeline and
\* main turn the result into the exit status.
LoadReturn ==
    /\ pc = "load_return"
    /\ pc' = "exited"
    /\ exitCode' = ExitStatus(RunLoadingResult(results))
    /\ UNCHANGED <<mode, idx, loader, last_timestamps, datasets, saved_files, ext_ok,
                   results, disk, tables, run, fetched, attempts, envFailed, lookupKind, extractCalled>>
    /\ UNCHANGED <<retained, interruptedAt, fetchVars, sanVars>>

\* ------------------------------------------------------------ interruption
\* Python's exception classes that derive from BaseException without deriving
\* from Exception.
NotExceptionSubclasses == {"KeyboardInterrupt", "SystemExit", "GeneratorExit"}
\* A handler that catches everything (a bare except).
CatchesAll(exc) == TRUE
\* `except Exception`, the widest handler of run_extraction, run_loading,
\* get_last_updated_timestamp, fetch_paginated_data, load_dataframe and
\* load_from_csv: it catches the subclasses of Exception only.
ExceptExceptionCatches(exc) == exc \notin NotExceptionSubclasses
\* sys.exit(130) of main's `except KeyboardInterrupt`.
InterruptStatus == 130

\* What a load_from_csv call that is cut short leaves: nothing done yet, the
\* job committed with the file still there, or the file unlinked as well.
CutShort(file, t) ==
    IF Staged(file) /\ file # NoFile
    THEN {[file |-> file, table |-> t], [file |-> file, table |-> Commit(t, file)],
          [file |-> NoFile, table |-> Commit(t, file)]}
    ELSE {[file |-> file, table |-> t]}

\* KeyboardInterrupt raised while a phase of pipeline.py runs. A handler that
\* catches it turns it into the failure of its phase; otherwise it reaches
\* main's `except KeyboardInterrupt`.
Interrupt ==
    /\ ~Stopped /\ mode \in {"full", "extract", "load"}
    /\ interruptedAt' = pc
    /\ pc' = "exited"
    /\ exitCode' = IF ExceptExceptionCatches("KeyboardInterrupt")
                   THEN ExitStatus(FALSE) ELSE InterruptStatus
    /\ IF pc = "load_loop"
       THEN LET r == ResOrder[idx] IN
            \E left \in CutShort(disk[r], tables[r]) :
               /\ disk' = [disk EXCEPT ![r] = left.file]
               /\ tables' = [tables EXCEPT ![r] = left.table]
       ELSE UNCHANGED <<disk, tables>>
    /\ UNCHANGED <<mode, idx, loader, last_timestamps, datasets, saved_files, ext_ok,
                   results, run, fetched, attempts, envFailed, lookupKind, extractCalled,
                   retained, fetchVars, sanVars>>

\* ---------------------------------------------------------- specifications
\* Runs of the pipeline and of the extractor, one after another, from an
\* empty staging directory and a warehouse without tables.
Init ==
    /\ mode = "none"
    /\ pc = "idle"
    /\ idx = 1
    /\ loader = "none"
    /\ last_timestamps = NoMarkers
    /\ datasets = NoData
    /\ saved_files = {}
    /\ ext_ok = FALSE
    /\ results = NoResults
    /\ exitCode = Running
    /\ disk = [r \in Resources |-> NoFile]
    /\ tables = [r \in Resources |-> NoTable]
    /\ run = 0
    /\ fetched = [r \in Resources |-> NotIssued]
    /\ attempts = [r \in Resources |-> 0]
    /\ envFailed = FALSE
    /\ lookupKind = [r \in Resources |-> "none"]
    /\ extractCalled = FALSE
    /\ retained = NothingLeft
    /\ interruptedAt = "none"
    /\ FetchOff /\ SanOff

Next ==
    \/ MainRejected
    \/ MainExtraction
    \/ MainLoad
    \/ ExtractorMain
    \/ ExtLoaderInit
    \/ Lookup
    \/ ExtractCall
    \/ Fetch
    \/ Save
    \/ ExtReturn
    \/ LoadStart
    \/ LoadStep
    \/ LoadReturn

Spec == Init /\ [][Next]_vars

\* One run of the pipeline's extraction phase (no flag, or --extract) against
\* every state the warehouse can be in: each table missing, or present with
\* any value as its MAX(updated_at).
InitProgress ==
    /\ mode = "none"
    /\ pc = "idle"
    /\ idx = 1
    /\ loader = "none"
    /\ last_timestamps = NoMarkers
    /\ datasets = NoData
    /\ saved_files = {}
    /\ ext_ok = FALSE
    /\ results = NoResults
    /\ exitCode = Running
    /\ disk = [r \in Resources |-> NoFile]
    /\ tables \in [Resources -> {NoTable} \cup {TableWith(v) : v \in Values}]
    /\ run = MaxRuns - 1
    /\ fetched = [r \in Resources |-> NotIssued]
    /\ attempts = [r \in Resources |-> 0]
    /\ envFailed = FALSE
    /\ lookupKind = [r \in Resources |-> "none"]
    /\ extractCalled = FALSE
    /\ retained = NothingLeft
    /\ interruptedAt = "none"
    /\ FetchOff /\ SanOff

NextProgress ==
    \/ MainExtraction
    \/ ExtLoaderInit
    \/ Lookup
    \/ ExtractCall
    \/ ExtReturn

SpecProgress == InitProgress /\ [][NextProgress]_vars

\* ------------------------------------------------- fetch_paginated_data
\* Retry(total=3, ...): the retries the session's adapter makes by itself.
RetryTotal == 3
\* status_forcelist of that Retry: the statuses the adapter retries.
StatusForcelist == {429, 500, 502, 503, 504}
\* Pages one listing has at most, session.get calls followed in one fetch, and
\* 429 answers in a row the source gives to one call before its final answer.
MaxPages == 3
MaxRequests == 5
Max429 == 4

\* What session.get gives back: a response with a status, or an exception.
Response(status) == [kind |-> "response", status |-> status]
RequestException == [kind |-> "exception", status |-> 0]
\* The source's final answer to a call: the page, a status the adapter does not
\* retry, or a connection error.
FinalAnswers == {Response(200), Response(404), RequestException}

\* self.session.get through the mounted HTTPAdapter: a 429 is in
\* status_forcelist, so the adapter sleeps and sends the request again, up to
\* RetryTotal times; one more 429 and it raises RetryError (a
\* RequestException). Otherwise the caller gets the final answer.
SessionGet(n429, final) ==
    IF n429 > RetryTotal /\ 429 \in StatusForcelist THEN RequestException
    ELSE IF n429 > 0 /\ 429 \notin StatusForcelist THEN Response(429)
    ELSE final

\* params={"limit": 250} of the first request.
LimitParam == <<"limit", PageLimit>>

\* The Link header of page j of n: a sequence of <<target page, rel>>, the
\* previous page's link from page 2 on, the next page's link up to page n - 1.
LinkHeader(j, n, prevFirst) ==
    LET prev == IF j > 1 THEN << <<j - 1, "previous">> >> ELSE <<>>
        next == IF j < n THEN << <<j + 1, "next">> >> ELSE <<>>
    IN IF prevFirst THEN prev \o next ELSE next \o prev
\* 'rel="next"' in link_header
HasRelNext(h) == \E i \in 1..Len(h) : h[i][2] = "next"
\* link_header.split(";")[0].strip("<> "): the URL of the header's first link.
FirstLinkUrl(h) == h[1][1]

\* response.json().get(key_name, []) of page j: its record, named by the
\* page's number, or an empty list.
PageRecords(j, records) == IF records[j] THEN <<j>> ELSE <<>>

\* What the function returns once the loop is left: pd.DataFrame() when
\* all_data is empty, else one row per record.
EmptyFrame == <<>>
ReturnedFrame(data) == IF data = <<>> THEN EmptyFrame ELSE data

\* The loop is left: by break, or because url is None.
LeaveLoop(byBreak) ==
    /\ fpc' = "returned"
    /\ broke' = byBreak

\* One iteration of `while url:`.
FetchIteration ==
    /\ fpc = "loop" /\ url # 0 /\ requests < MaxRequests
    /\ \E n429 \in 0..Max429, final \in FinalAnswers :
         LET response == SessionGet(n429, final) IN
         /\ requests' = requests + 1
         /\ sawRateLimit' = (sawRateLimit \/ n429 > 0)
         /\ sawFailure' = (sawFailure \/ (n429 <= RetryTotal /\ final # Response(200)))
         /\ IF response.kind = "exception"
            THEN LeaveLoop(TRUE) /\ UNCHANGED <<url, params, all_data, page_num>>
            ELSE IF response.status = 429
            THEN UNCHANGED <<fpc, broke, url, params, all_data, page_num>>
            ELSE IF response.status # 200
            THEN LeaveLoop(TRUE) /\ UNCHANGED <<url, params, all_data, page_num>>
            ELSE LET link_header == LinkHeader(url, srvPages, srvPrevFirst) IN
                 /\ all_data' = all_data \o PageRecords(url, srvRecords)
                 /\ IF link_header # <<>> /\ HasRelNext(link_header)
                    THEN /\ url' = FirstLinkUrl(link_header)
                         /\ params' = None
                         /\ page_num' = page_num + 1
                         /\ UNCHANGED <<fpc, broke>>
                    ELSE /\ url' = 0
                         /\ LeaveLoop(FALSE)
                         /\ UNCHANGED <<params, page_num>>
    /\ UNCHANGED <<srvPages, srvPrevFirst, srvRecords, runVars, sanVars>>

\* No process of the pipeline is being followed.
RunsOff ==
    /\ mode = "none" /\ pc = "idle" /\ idx = 1 /\ loader = "none"
    /\ last_timestamps = NoMarkers /\ datasets = NoData /\ saved_files = {}
    /\ ext_ok = FALSE /\ results = NoResults /\ exitCode = Running
    /\ disk = [r \in Resources |-> NoFile] /\ tables = [r \in Resources |-> NoTable]
    /\ run = 0 /\ fetched = [r \in Resources |-> NotIssued]
    /\ attempts = [r \in Resources |-> 0] /\ envFailed = FALSE
    /\ lookupKind = [r \in Resources |-> "none"] /\ extractCalled = FALSE
    /\ retained = NothingLeft
    /\ interruptedAt = "none"

\* One call of fetch_paginated_data against a listing of 1..MaxPages pages,
\* each holding one record or none, the source writing its Link headers in
\* either order.
InitFetch ==
    /\ RunsOff /\ SanOff
    /\ fpc = "loop"
    /\ url = 1
    /\ params = LimitParam
    /\ all_data = <<>>
    /\ page_num = 1
    /\ requests = 0
    /\ broke = FALSE
    /\ srvPages \in 1..MaxPages
    /\ srvPrevFirst \in BOOLEAN
    /\ srvRecords \in [1..srvPages -> BOOLEAN]
    /\ sawRateLimit = FALSE
    /\ sawFailure = FALSE

NextFetch == FetchIteration

SpecFetch == InitFetch /\ [][NextFetch]_vars

\* --------------------------------------------------- clean_column_names
\* Column names are sequences of characters, at most MaxLen characters in
\* one DataFrame. One character stands for each kind the function tells
\* apart: a lowercase letter, an uppercase letter, a digit, the underscore,
\* and a character outside [a-zA-Z0-9_].
MaxLen == 3
Alphabet == {"a", "A", "1", "_", "$"}
NamesUpTo(n) == UNION {[1..k -> Alphabet] : k \in 0..n}
\* DataFrames of one or two columns.
Frames ==
    {<<a>> : a \in NamesUpTo(MaxLen)} \cup
    UNION {{<<a, b>> : b \in NamesUpTo(MaxLen - Len(a))} : a \in NamesUpTo(MaxLen)}

\* .str.replace(r"[^a-zA-Z0-9_]", "_", regex=True)
IsValidChar(c) == c \in {"a", "A", "1", "_"}
ReplaceInvalid(s) == [i \in 1..Len(s) |-> IF IsValidChar(s[i]) THEN s[i] ELSE "_"]
\* .str.strip("_")
RECURSIVE LStrip(_)
LStrip(s) == IF s # <<>> /\ Head(s) = "_" THEN LStrip(Tail(s)) ELSE s
RECURSIVE RStrip(_)
RStrip(s) == IF s # <<>> /\ s[Len(s)] = "_" THEN RStrip(SubSeq(s, 1, Len(s) - 1)) ELSE s
StripUnderscores(s) == RStrip(LStrip(s))
\* .str.lower()
Lower(s) == [i \in 1..Len(s) |-> IF s[i] = "A" THEN "a" ELSE s[i]]
\* The three vectorised string operations on one name.
Vectorised(s) == Lower(StripUnderscores(ReplaceInvalid(s)))
\* col[0].isdigit()
IsDigit(c) == c = "1"
\* col[0] of an empty string raises IndexError; the value stands for the
\* exception leaving clean_column_names.
IndexError == << <<"IndexError">> >>

\* BigQueryLoader.clean_column_names on the columns of a DataFrame.
CleanColumnNames(cols) ==
    LET v == [i \in 1..Len(cols) |-> Vectorised(cols[i])] IN
    IF \E i \in 1..Len(cols) : v[i] = <<>> THEN IndexError
    ELSE [i \in 1..Len(cols) |-> IF IsDigit(v[i][1]) THEN <<"_">> \o v[i] ELSE v[i]]

\* clean_column_names(df)
CleanOnce ==
    /\ spc = "input"
    /\ cleaned' = CleanColumnNames(columns)
    /\ spc' = "cleaned"
    /\ UNCHANGED <<columns, recleaned, runVars, fetchVars>>

\* clean_column_names(clean_column_names(df)): the exception of the inner
\* call leaves the outer one uncalled.
CleanAgain ==
    /\ spc = "cleaned"
    /\ recleaned' = IF cleaned = IndexError THEN IndexError ELSE CleanColumnNames(cleaned)
    /\ spc' = "recleaned"
    /\ UNCHANGED <<columns, cleaned, runVars, fetchVars>>

InitSanitize ==
    /\ RunsOff /\ FetchOff
    /\ spc = "input"
    /\ columns \in Frames
    /\ cleaned = <<>>
    /\ recleaned = <<>>

NextSanitize ==
    \/ CleanOnce
    \/ CleanAgain

SpecSanitize == InitSanitize /\ [][NextSanitize]_vars

\* ------------------------------------------------------------------ claims
\* The maximum of r's table is a time T the offset applies to: a datetime or
\* ISO text, with T + 1 second still a datetime.
Offsettable(v) == v[1] \in {"datetime", "iso"} /\ ~Overflows(TimeOf(v))
\* run_extraction has returned in this process.
ExtractionOver == pc \in {"ext_return", "load_start", "load_loop", "load_return"}
                    \/ (pc = "exited" /\ mode \in {"full", "extract"})

\* C1: when run_extraction is over and nothing outside failed, every resource
\* was fetched, each fetch carried as updated_at_min the marker of the progress
\* map (none when the resource has no marker), and a table maximum T gave the
\* lower bound T + 1 second.
C1_FetchCarriesMarker ==
    (ExtractionOver /\ ~envFailed) =>
        \A r \in Resources :
            /\ fetched[r].issued
            /\ fetched[r].updated_at_min = last_timestamps[r]
            /\ (tables[r].exists /\ Offsettable(tables[r].maxv))
                  => fetched[r].updated_at_min = Iso(TimeOf(tables[r].maxv) + 1)

\* C3 as stated: every non-null maximum T that a lookup read comes back as
\* T + 1 second, whatever its form.
C3_AlwaysPlusOne ==
    \A r \in Resources :
        (lookupKind[r] = "row" /\ tables[r].maxv # Null)
            => last_timestamps[r] = Iso(TimeOf(tables[r].maxv) + 1)

\* C3 amended: a maximum T that is a datetime or ISO text, with T + 1 second
\* still a datetime, comes back as T plus exactly one second, strictly later
\* than T; text fromisoformat rejects comes back unchanged, without offset; the
\* empty string and T = datetime.max give no marker.
C3_PlusOneWhenParsed ==
    \A r \in Resources :
        lookupKind[r] = "row" =>
            LET v == tables[r].maxv IN
            /\ Offsettable(v) => /\ last_timestamps[r] = Iso(TimeOf(v) + 1)
                                 /\ TimeOf(last_timestamps[r]) > TimeOf(v)
            /\ v[1] = "raw" => last_timestamps[r] = v
            /\ (v = EmptyStr \/ (v[1] \in {"datetime", "iso"} /\ Overflows(TimeOf(v))))
                  => last_timestamps[r] = None

\* A lookup read a datetime maximum and one read an ISO string, and both
\* markers are one second later; a third read text that does not parse and
\* its marker is that text.
C3_Witness ==
    \E r, q, p \in Resources :
        /\ lookupKind[r] = "row" /\ tables[r].maxv = Dt(0) /\ last_timestamps[r] = Iso(1)
        /\ lookupKind[q] = "row" /\ tables[q].maxv = Iso(0) /\ last_timestamps[q] = Iso(1)
        /\ lookupKind[p] = "row" /\ tables[p].maxv = Raw(0) /\ last_timestamps[p] = Raw(0)

\* C4: a resource whose lookup ended and whose table is missing or has a null
\* maximum has no key in the progress map, and a resource has a key only if
\* its table exists with a non-null maximum.
C4_NoDataNoMarker ==
    \A r \in Resources :
        /\ (lookupKind[r] # "none" /\ (~tables[r].exists \/ tables[r].maxv = Null))
              => last_timestamps[r] = None
        /\ last_timestamps[r] # None => (tables[r].exists /\ tables[r].maxv # Null)

\* The three lookups are over: one table was missing, one had a null maximum,
\* neither has a marker, and the third resource has one.
C4_Witness ==
    /\ pc = "extract_call"
    /\ \E r, q, p \in Resources :
        /\ lookupKind[r] = "notfound" /\ last_timestamps[r] = None
        /\ lookupKind[q] = "row" /\ tables[q].maxv = Null /\ last_timestamps[q] = None
        /\ last_timestamps[p] # None

\* C5: a lookup that raised leaves its resource without a marker (never with a
\* later one), the loop goes on to the resources after it, and a process in
\* which a lookup raised gets, once the lookups are over, to the extract_all
\* call with all three resources looked up.
C5_LookupErrorAbsorbed ==
    \A r \in Resources :
        lookupKind[r] = "error" =>
            /\ last_timestamps[r] = None
            /\ pc \in {"lookup", "extract_call", "ext_return", "exited"}
            /\ pc # "lookup" =>
                  /\ \A q \in Resources : lookupKind[q] # "none"
                  /\ (extractCalled \/ pc = "extract_call")

\* The first lookup raised, a later one found a marker, and the extract_all
\* call was reached.
C5_Witness ==
    /\ extractCalled
    /\ lookupKind[ResOrder[1]] = "error"
    /\ \E q \in Resources : lookupKind[q] = "row" /\ last_timestamps[q] # None

\* The loader could not be constructed, or every lookup raised.
StoreUnreachable ==
    \/ (loader = "none" /\ envFailed)
    \/ \A r \in Resources : lookupKind[r] = "error"

\* C6: when the progress store was unreachable, run_extraction reports success
\* with an empty progress map and all three resources fetched without lower bound.
C6_DegradesToFullExtraction ==
    (ExtractionOver /\ mode \in {"full", "extract"} /\ StoreUnreachable) =>
        /\ ext_ok
        /\ last_timestamps = NoMarkers
        /\ \A r \in Resources : fetched[r].issued /\ fetched[r].updated_at_min = None

\* The number of times batch i was appended to r's table.
Appended(r, i) == Cardinality({k \in 1..Len(tables[r].rows) : tables[r].rows[k] = i})
\* The results dict holds a failed load.
SomeLoadFailed == \E r \in Resources : results[r] = <<FALSE>>

\* C2: a full-pipeline run in which nothing outside failed exits 0 with every
\* artifact it staged deleted, and the exit status of a run whose extraction
\* phase or some attempted load failed is not 0.
C2_FullRunReachesDone ==
    (pc = "exited" /\ mode = "full") =>
        /\ ~envFailed => (exitCode = 0 /\ \A r \in saved_files : disk[r] = NoFile)
        /\ (~ext_ok \/ SomeLoadFailed) => exitCode # 0

\* The step about to run is the iteration of the load loop for r.
LoadStepOf(r) == pc = "load_loop" /\ ResOrder[idx] = r

\* C7: the artifact of R disappears only in R's own load step and only when
\* that step returns success, it disappears in every such step, a failed load
\* of R leaves R's artifact as it was, and the load step of another resource
\* leaves it as it was.
C7_DeletedOnlyByOwnSuccess ==
    [][\A r \in Resources :
        /\ (disk[r] # NoFile /\ disk'[r] = NoFile)
              => (LoadStepOf(r) /\ results'[r] = <<TRUE>>)
        /\ (LoadStepOf(r) /\ results'[r] = <<TRUE>>) => disk'[r] = NoFile
        /\ (LoadStepOf(r) /\ results'[r] = <<FALSE>>) => disk'[r] = disk[r]
        /\ (pc = "load_loop" /\ ~LoadStepOf(r)) => disk'[r] = disk[r]]_vars

\* One load phase in which a load failed and kept its artifact while the load
\* of another resource succeeded and deleted its own.
C7_Witness ==
    \E r, q \in Resources :
        /\ results[r] = <<FALSE>> /\ disk[r] # NoFile
        /\ results[q] = <<TRUE>> /\ disk[q] = NoFile /\ tables[q].rows # <<>>

\* C8: a batch whose artifact is on disk has not been appended to its table.
C8_ArtifactMeansNotLoaded ==
    \A r \in Resources : disk[r] # NoFile => Appended(r, disk[r].id) = 0

\* C9: no batch is appended to its table more than once.
C9_AppendedAtMostOnce ==
    \A r \in Resources : \A i \in 1..MaxRuns : Appended(r, i) <= 1

\* A process started with --load has ended.
LoadPhaseOver == pc = "exited" /\ mode = "load"
\* One step: the load loop attempts its resource once when it has an artifact.
OneAttemptEach ==
    \A r \in Resources :
        /\ LoadStepOf(r) => attempts'[r] = attempts[r] + (IF disk[r] # NoFile THEN 1 ELSE 0)
        /\ (pc = "load_loop" /\ ~LoadStepOf(r)) => attempts'[r] = attempts[r]
        /\ attempts'[r] <= 1
\* C10 as stated: when a load phase is over, every artifact still on disk had
\* its load attempt, and the phase reported success exactly when no attempted
\* load failed.
C10_SuccessIffAllLoaded ==
    LoadPhaseOver =>
        /\ \A r \in Resources : disk[r] # NoFile => attempts[r] = 1
        /\ exitCode = 0 <=> ~SomeLoadFailed

\* C10 amended: every step of the load loop makes one load attempt for its
\* resource when that resource has an artifact and none otherwise, whatever
\* the earlier loads returned, and no resource is attempted twice; a load
\* phase whose loader could be constructed attempts every artifact and reports
\* success exactly when no attempted load failed; when BigQueryLoader() raises,
\* no load is attempted and the phase reports failure.
C10_LoadsIndependent ==
    /\ [][OneAttemptEach]_vars
    /\ [](LoadPhaseOver =>
            /\ loader = "ready" => (exitCode = 0 <=> ~SomeLoadFailed)
            /\ loader = "ready" => \A r \in Resources :
                  /\ attempts[r] = 1 <=> results[r] # Unset
                  /\ disk[r] # NoFile => attempts[r] = 1
            /\ loader = "none" => (exitCode = 1 /\ \A r \in Resources : attempts[r] = 0))

\* A load phase in which the first resource's load failed and a later
\* resource's load was attempted and succeeded; the phase reported failure.
C10_Witness ==
    /\ LoadPhaseOver /\ exitCode = 1
    /\ results[ResOrder[1]] = <<FALSE>>
    /\ \E q \in Resources : results[q] = <<TRUE>> /\ attempts[q] = 1

\* ------------------------------------------------- retry after a failed load
\* The artifact the latest failed load of r left is still the file on disk.
LeftOver(r) == retained[r].file # NoFile /\ disk[r] = retained[r].file

\* C11: a full-pipeline run in which nothing outside failed attempts the load
\* of every artifact an earlier failed load left on disk: when such a run has
\* ended, no artifact left by a failed load is still there without a load
\* attempt of this run.
C11_LeftArtifactRetried ==
    (pc = "exited" /\ mode = "full" /\ ~envFailed) =>
        \A r \in Resources : LeftOver(r) => attempts[r] >= 1

\* The process after the one whose load of r failed is running (or has ended),
\* and it is an invocation of pipeline.py.
RetryOf(r) ==
    /\ retained[r].file # NoFile
    /\ retained[r].age = 1
    /\ mode # "extractor"

C13_EmptyBatchNeutral ==
    (pc = "exited" /\ mode \in {"full", "extract", "extractor"} /\ ~envFailed) =>
        \A r \in Resources : datasets[r] = EmptyDF =>
            /\ disk[r].id # run
            /\ attempts[r] = 0
            /\ exitCode = 0

\* ------------------------------------------------------- the load phase alone
\* `pipeline.py --load`, twice in a row, against every staging directory and
\* warehouse it can find: per resource no CSV file, a CSV file with a header
\* and no rows, or a batch an earlier process staged; each table missing or
\* holding earlier rows.
InitLoad ==
    /\ mode = "none"
    /\ pc = "idle"
    /\ idx = 1
    /\ loader = "none"
    /\ last_timestamps = NoMarkers
    /\ datasets = NoData
    /\ saved_files = {}
    /\ ext_ok = FALSE
    /\ results = NoResults
    /\ exitCode = Running
    /\ disk \in [Resources -> {NoFile, EmptyDF, Batch(MaxRuns - 2, Iso(MaxT))}]
    /\ tables \in [Resources -> {NoTable, TableWith(Iso(0))}]
    /\ run = MaxRuns - 2
    /\ fetched = [r \in Resources |-> NotIssued]
    /\ attempts = [r \in Resources |-> 0]
    /\ envFailed = FALSE
    /\ lookupKind = [r \in Resources |-> "none"]
    /\ extractCalled = FALSE
    /\ retained = NothingLeft
    /\ interruptedAt = "none"
    /\ FetchOff /\ SanOff

NextLoad ==
    \/ MainLoad
    \/ LoadStart
    \/ LoadStep
    \/ LoadReturn

SpecLoad == InitLoad /\ [][NextLoad]_vars

\* C14: a load of a zero-row artifact is a success without a load job: when
\* nothing outside failed in this process, no load of this process on a
\* zero-row artifact has returned failure, and such a load leaves the table
\* as it was.
C14_EmptyBatchLoadsAsSuccess ==
    ~envFailed => \A r \in Resources :
        ~(retained[r].age = 0 /\ retained[r].file = EmptyDF)

\* ---------------------------------------------------------------- appending
\* Sequence s is the beginning of sequence t.
IsPrefix(s, t) == Len(s) <= Len(t) /\ SubSeq(t, 1, Len(s)) = s

\* One step keeps every table and every row it holds, in place.
RowsOnlyGrow ==
    \A r \in Resources :
        /\ tables[r].exists => tables'[r].exists
        /\ IsPrefix(tables[r].rows, tables'[r].rows)

\* C20: no step of the load path removes a table or a row: after every load
\* job the rows a table held before are still there, followed by the batch's.
C20_LoadsOnlyAppend == [][RowsOnlyGrow]_vars

\* A load job committed to a table that held rows: they are still its first rows.
C20_Witness ==
    \E r \in Resources :
        /\ results[r] = <<TRUE>>
        /\ Len(tables[r].rows) >= 2
        /\ tables[r].rows[1] = 0

\* ------------------------------------------------------------- the fetches
\* C15: a fetch that ends in a failure is not raised out of extraction: when
\* the extraction phase is over and nothing but fetches can have failed, every
\* resource was fetched and the phase reported success.
C15_FetchFailureContained ==
    (ExtractionOver /\ mode \in {"full", "extract"} /\ ~envFailed) =>
        /\ \A r \in Resources : fetched[r].issued
        /\ ext_ok

\* --------------------------------------------------------------- pagination
\* The records of pages 1..srvPages, each once and in page order.
AllRecords == SelectSeq([j \in 1..srvPages |-> j], LAMBDA j : srvRecords[j])
\* Every answer so far was the page asked for, with status 200.
OnlyPages == ~sawRateLimit /\ ~sawFailure

\* C16: while every answer is a 200 page, a fetch of an N-page listing makes
\* at most N requests and collects records of pages 1..N in order, each once;
\* when it has returned it made exactly N requests and holds exactly those
\* records, whichever links the Link headers carry besides the next-page one.
C16_FollowsNextToTheEnd ==
    OnlyPages =>
        /\ requests <= srvPages
        /\ IsPrefix(all_data, AllRecords)
        /\ fpc = "returned" => (requests = srvPages /\ all_data = AllRecords /\ ~broke)

\* C17: rate limiting alone never ends a fetch: as long as the source answers
\* every request with the page or with 429, however many 429 in a row, the
\* loop is not left by break.
C17_RateLimitNeverFails == ~sawFailure => ~broke

\* ---------------------------------------------------------------- sanitizer
\* A name the warehouse accepts: not empty, of [a-z0-9_] only, no digit first.
ValidName(s) ==
    /\ s # <<>>
    /\ \A i \in 1..Len(s) : s[i] \in {"a", "1", "_"}
    /\ ~IsDigit(s[1])

\* C18: for every DataFrame, cleaning the cleaned columns returns, and returns
\* the columns the first cleaning returned.
C18_Idempotent ==
    spc = "recleaned" => (recleaned # IndexError /\ recleaned = cleaned)

\* C19: for every DataFrame, clean_column_names returns, and every name it
\* returns is a valid name.
C19_Total ==
    spc \in {"cleaned", "recleaned"} =>
        /\ cleaned # IndexError
        /\ \A i \in 1..Len(cleaned) : ValidName(cleaned[i])

\* Where clean_column_names returns, C18 and C19 hold of what it returns.
SanitizerWhereDefined ==
    (spc = "recleaned" /\ cleaned # IndexError) =>
        /\ recleaned = cleaned
        /\ \A i \in 1..Len(cleaned) : ValidName(cleaned[i])

\* ------------------------------------------------------------ interruption
\* Runs of pipeline.py, in any of its three modes, that a KeyboardInterrupt
\* may end at any position, against every staging directory and warehouse.
NextInterrupt ==
    \/ MainExtraction
    \/ MainLoad
    \/ ExtLoaderInit
    \/ Lookup
    \/ ExtractCall
    \/ ExtReturn
    \/ LoadStart
    \/ LoadStep
    \/ LoadReturn
    \/ Interrupt

SpecInterrupt == InitLoad /\ [][NextInterrupt]_vars

\* C21: a process that was interrupted has ended with exit status 130,
\* wherever the interrupt arrived, and a process that ended without an
\* interrupt has exit status 0 or 1.
C21_InterruptExits130 ==
    /\ interruptedAt # "none" => (pc = "exited" /\ exitCode = InterruptStatus)
    /\ (pc = "exited" /\ interruptedAt = "none") => exitCode \in {0, 1}

\* An interrupt arrived in the middle of the load loop, after a load attempt
\* of that process, and the process ended with status 130.
C21_Witness ==
    /\ exitCode = InterruptStatus
    /\ interruptedAt = "load_loop"
    /\ \E r \in Resources : attempts[r] = 1

\* ------------------------------------------------------------ partial batch
\* The records of pages 1..k, each once and in page order.
RecordsUpTo(k) == SelectSeq([j \in 1..k |-> j], LAMBDA j : srvRecords[j])

\* C22: a fetch that was left by break at page k > 1, on a non-200 status or a
\* request exception, has returned exactly the records of pages 1..k-1.
C22_PartialBatchReturned ==
    (fpc = "returned" /\ broke /\ sawFailure /\ url > 1) =>
        ReturnedFrame(all_data) = RecordsUpTo(url - 1)

\* ------------------------------------------------------- order of the steps
\* The steps of one full-pipeline process so far are in order: extract_all is
\* called, and a fetch issued, only when every progress marker has been read;
\* a load is attempted only when extraction reported success with every
\* resource fetched and the staging loop over; once extraction has reported
\* failure the process is about to end or has ended, without a load attempt
\* and without an artifact of its own.
StepsInOrder ==
    mode = "full" =>
        /\ (extractCalled \/ \E r \in Resources : fetched[r].issued) =>
              \A r \in Resources : lookupKind[r] # "none"
        /\ (\E r \in Resources : attempts[r] > 0) =>
              (ext_ok /\ \A r \in Resources : fetched[r].issued)
        /\ (ExtractionOver /\ ~ext_ok) =>
              /\ pc \in {"ext_return", "exited"}
              /\ \A r \in Resources : attempts[r] = 0 /\ disk[r].id # run

\* A step of a full-pipeline process whose extraction has not reported
\* success leaves every artifact and every table as it is.
FailedExtractionKeepsDisk ==
    (mode = "full" /\ mode' = "full" /\ run' = run /\ ~ext_ok') =>
        (disk' = disk /\ tables' = tables)

\* C23: in a full-pipeline run no fetch is issued before all progress markers
\* have been read, no load is started before all three resources have been
\* fetched and staged, and when the extraction phase reports failure no load
\* is started and the artifacts on disk stay as they were.
C23_PhasesInOrder == [][FailedExtractionKeepsDisk]_vars /\ []StepsInOrder

\* A full-pipeline run read its three markers, called extract_all, reported
\* the failure of extraction and ended; the artifact an earlier process had
\* staged is on disk as before, without a load attempt.
C23_Witness ==
    /\ mode = "full" /\ pc = "exited" /\ ~ext_ok /\ extractCalled
    /\ \A r \in Resources : lookupKind[r] # "none" /\ attempts[r] = 0
    /\ \E r \in Resources : disk[r] # NoFile /\ disk[r].id < run

\* --------------------------------------------------------- nothing staged
\* C24: a full-pipeline run in which nothing outside failed and whose
\* extraction staged nothing has ended with its load phase skipped as a
\* success: no load attempt, no artifact written or deleted by this run, and
\* exit status 0.
C24_NothingStagedSkipsLoad ==
    (pc = "exited" /\ mode = "full" /\ ~envFailed /\ saved_files = {}) =>
        /\ \A r \in Resources : attempts[r] = 0 /\ disk[r].id # run
        /\ exitCode = ExitStatus(TRUE)

====
